---- MODULE Spec2Model ----
(***************************************************************************)
(* A model of pdfmc.py: the command-line PDF merger.                       *)
(*                                                                         *)
(* Strings are sequences of one-character strings, so that str.lower(),    *)
(* str.endswith() and os.path.join() are computed and not assumed.  The    *)
(* file system is a function from paths to nodes; it is fixed during a     *)
(* run, except for the output path, which only PdfWriter.write changes.    *)
(***************************************************************************)
EXTENDS Integers, Sequences, FiniteSets, TLC

VARIABLES
    env,                   \* the world main() runs in: file system, output path before the run
    args,                  \* the parsed command line (argparse namespace)
    pc,                    \* position of main() and of the function it is in
    files,                 \* main: files
    valid_files,           \* validate_pdf_files: valid_files
    vi,                    \* validate_pdf_files: position of the for loop in file_paths
    pdf_files_with_paths,  \* get_pdf_files_in_folders: pdf_files_with_paths
    fi,                    \* get_pdf_files_in_folders: position of the for loop in folders
    walker,                \* os.walk generator: directories still to be visited
    stdout,                \* lines printed with print()
    log,                   \* records emitted by logging (root logger, level WARNING)
    writer,                \* merge_pdfs: the PdfWriter
    mi,                    \* merge_pdfs: position of the for loop in input_files
    outFile,               \* content of the file at args.output_file
    writes                 \* number of calls of writer.write

vars == <<env, args, pc, files, valid_files, vi, pdf_files_with_paths, fi, walker,
          stdout, log, writer, mi, outFile, writes>>

(***************************************************************************)
(* Bounds of the model.                                                    *)
(***************************************************************************)
MaxFiles == 2      \* longest --files list
MaxFolders == 2    \* longest --folders list

(***************************************************************************)
(* Strings.                                                                *)
(***************************************************************************)
Sep == <<"/">>
DotPdf == <<".", "p", "d", "f">>

\* str.lower(), one character
LowerChar(c) ==
    CASE c = "P" -> "p"
      [] c = "D" -> "d"
      [] c = "F" -> "f"
      [] c = "A" -> "a"
      [] OTHER -> c

\* str.lower()
Lower(s) == [i \in 1..Len(s) |-> LowerChar(s[i])]

\* str.endswith(suffix)
EndsWith(s, suffix) ==
    /\ Len(s) >= Len(suffix)
    /\ SubSeq(s, Len(s) - Len(suffix) + 1, Len(s)) = suffix

\* the test both functions apply: name.lower().endswith('.pdf')
IsPdfName(s) == EndsWith(Lower(s), DotPdf)

\* os.path.join(root, name), name relative
Join(root, name) ==
    IF root = <<>> THEN name
    ELSE IF EndsWith(root, Sep) THEN root \o name
    ELSE root \o Sep \o name

(***************************************************************************)
(* The file system.  A node is a regular file (pdf: whether the PDF codec  *)
(* can open it), a directory with its entries in the order the operating   *)
(* system lists them, or a directory that cannot be listed.                *)
(***************************************************************************)
File(readable) == [kind |-> "file", pdf |-> readable, entries |-> <<>>]
Dir(names)     == [kind |-> "dir", pdf |-> FALSE, entries |-> names]
Denied(names)  == [kind |-> "denied", pdf |-> FALSE, entries |-> names]

\* names of directory entries
n_a == <<"a", ".", "p", "d", "f">>
n_b == <<"b", ".", "P", "D", "F">>
n_c == <<"c", ".", "t", "x", "t">>
n_e == <<"e", ".", "p", "d", "f">>     \* a directory whose name ends in .pdf
n_s == <<"s">>                         \* a subdirectory (or a file, or absent)
n_t == <<"t", ".", "P", "d", "f">>
n_u == <<"u", ".", "p", "d", "f">>
n_p == <<"p", "d", "f">>               \* shorter than the suffix

\* paths given on the command line
p_A == <<"A">>
p_S == Join(p_A, n_s)
p_x == <<"x", ".", "p", "d", "f">>
p_y == <<"y", ".", "P", "D", "F">>
p_z == <<"z", ".", "t", "x", "t">>

FileArgs == {p_x, p_y, p_z}
FolderArgs == {p_A, p_S}

\* the orders in which the operating system may list folder A
ListingsA == { <<n_b, n_s, n_a, n_c>>, <<n_e, n_a, n_s, n_p>> }
SKinds == {"dir", "denied", "file", "none"}

Without(seq, name) == SelectSeq(seq, LAMBDA n : n # name)

\* the file system with A listed as aList, s of kind sKind, x.pdf present or
\* not and y.PDF readable by the codec or not
MkFS(aList, sKind, xPresent, yReadable) ==
    LET listA == IF sKind = "none" THEN Without(aList, n_s) ELSE aList
        inS   == <<n_t, n_c>>
        base  == (p_A :> Dir(listA)) @@ (p_y :> File(yReadable)) @@ (p_z :> File(FALSE))
        ofA   == [p \in {Join(p_A, listA[i]) : i \in 1..Len(listA)} |->
                    IF p = Join(p_A, n_e) THEN Dir(<<n_u>>)
                    ELSE IF p = p_S THEN
                        CASE sKind = "dir" -> Dir(inS)
                          [] sKind = "denied" -> Denied(inS)
                          [] OTHER -> File(FALSE)
                    ELSE File(p \in {Join(p_A, n_a), Join(p_A, n_b)})]
        ofE   == IF Join(p_A, n_e) \in DOMAIN ofA
                 THEN (Join(Join(p_A, n_e), n_u) :> File(TRUE)) ELSE <<>>
        ofS   == IF sKind \in {"dir", "denied"}
                 THEN (Join(p_S, n_t) :> File(TRUE)) @@ (Join(p_S, n_c) :> File(FALSE))
                 ELSE <<>>
        ofX   == IF xPresent THEN (p_x :> File(TRUE)) ELSE <<>>
    IN base @@ ofA @@ ofE @@ ofS @@ ofX

FileSystems ==
    { MkFS(l, k, x, y) : l \in ListingsA, k \in SKinds, x \in BOOLEAN, y \in BOOLEAN }

\* os.path.exists(path)
Exists(fs, path) == path \in DOMAIN fs

\* os.listdir / os.scandir succeed on path
Listable(fs, path) == Exists(fs, path) /\ fs[path].kind = "dir"

\* DirEntry.is_dir()
IsDir(fs, path) == Exists(fs, path) /\ fs[path].kind \in {"dir", "denied"}

\* number of pages of a document the codec can open
NumPages(path) ==
    CASE path = p_x -> 2
      [] path = p_y -> 3
      [] path = Join(p_A, n_b) -> 0
      [] OTHER -> 1

\* the pages of a document, in the document's own order
DocPages(path) == [i \in 1..NumPages(path) |-> <<path, i>>]

\* PdfWriter.append(path) can open and read path
CanAppend(fs, path) == Exists(fs, path) /\ fs[path].kind = "file" /\ fs[path].pdf

\* all sequences over S of length at most n
SeqsUpTo(S, n) == UNION { [1..k -> S] : k \in 0..n }

(***************************************************************************)
(* The state after parser.parse_args().                                    *)
(***************************************************************************)
Absent == <<"absent">>                 \* no file at the output path
OldFile == <<"old">>                   \* a file that was there before the run
Written(pages) == <<"pdf", pages>>     \* the document PdfWriter.write stored

NoWriter == [open |-> FALSE, pages |-> <<>>, closes |-> 0]

Init ==
    /\ env \in [fs : FileSystems, output : {Absent, OldFile}]
    /\ args \in [files : SeqsUpTo(FileArgs, MaxFiles),
                 folders : SeqsUpTo(FolderArgs, MaxFolders),
                 recursive : BOOLEAN,
                 dry_run : BOOLEAN]
    /\ pc = "start"
    /\ files = <<>>
    /\ valid_files = <<>>
    /\ vi = 1
    /\ pdf_files_with_paths = <<>>
    /\ fi = 1
    /\ walker = <<>>
    /\ stdout = <<>>
    /\ log = <<>>
    /\ writer = NoWriter
    /\ mi = 1
    /\ outFile = env.output
    /\ writes = 0

\* logging.warning / logging.error
Warning(msg, path) == [level |-> "WARNING", msg |-> msg, path |-> path]
Error(msg, path) == [level |-> "ERROR", msg |-> msg, path |-> path]

(***************************************************************************)
(* main, lines 119-122: files = []; if args.files: call validate_pdf_files *)
(***************************************************************************)
MainFiles ==
    /\ pc = "start"
    /\ files' = <<>>
    /\ IF args.files # <<>>
       THEN /\ pc' = "validate"
            /\ valid_files' = <<>>
            /\ vi' = 1
       ELSE /\ pc' = "folders"
            /\ UNCHANGED <<valid_files, vi>>
    /\ UNCHANGED <<env, args, pdf_files_with_paths, fi, walker, stdout, log, writer,
                   mi, outFile, writes>>

(***************************************************************************)
(* validate_pdf_files: one iteration of the loop per step.                 *)
(***************************************************************************)
\* the test of line 49
NotFound(fs, file_path) == ~Exists(fs, file_path)

\* line 52 without .lower(): the variant C1 must tell from the code
NotPdfCaseSensitive(file_path) == ~EndsWith(file_path, DotPdf)

\* the test of line 52
NotPdf(file_path) == ~IsPdfName(file_path)

ValidateNotFound ==
    /\ pc = "validate"
    /\ vi <= Len(args.files)
    /\ NotFound(env.fs, args.files[vi])
    /\ log' = Append(log, Warning("File not found", args.files[vi]))
    /\ vi' = vi + 1
    /\ UNCHANGED <<env, args, pc, files, valid_files, pdf_files_with_paths, fi, walker,
                   stdout, writer, mi, outFile, writes>>

ValidateNotPdf ==
    /\ pc = "validate"
    /\ vi <= Len(args.files)
    /\ ~NotFound(env.fs, args.files[vi])
    /\ NotPdf(args.files[vi])
    /\ log' = Append(log, Warning("Not a PDF file", args.files[vi]))
    /\ vi' = vi + 1
    /\ UNCHANGED <<env, args, pc, files, valid_files, pdf_files_with_paths, fi, walker,
                   stdout, writer, mi, outFile, writes>>

\* line 55
KeepValid(valid, file_path) == Append(valid, file_path)

ValidateKeep ==
    /\ pc = "validate"
    /\ vi <= Len(args.files)
    /\ ~NotFound(env.fs, args.files[vi])
    /\ ~NotPdf(args.files[vi])
    /\ valid_files' = KeepValid(valid_files, args.files[vi])
    /\ vi' = vi + 1
    /\ UNCHANGED <<env, args, pc, files, pdf_files_with_paths, fi, walker, stdout, log,
                   writer, mi, outFile, writes>>

\* return valid_files; main, line 122: files = files + validate_pdf_files(...)
ValidateReturn ==
    /\ pc = "validate"
    /\ vi > Len(args.files)
    /\ files' = files \o valid_files
    /\ pc' = "folders"
    /\ UNCHANGED <<env, args, valid_files, vi, pdf_files_with_paths, fi, walker, stdout,
                   log, writer, mi, outFile, writes>>

(***************************************************************************)
(* main, lines 124-125: if args.folders: call get_pdf_files_in_folders     *)
(***************************************************************************)
MainFolders ==
    /\ pc = "folders"
    /\ IF args.folders # <<>>
       THEN /\ pc' = "scan"
            /\ pdf_files_with_paths' = <<>>
            /\ fi' = 1
       ELSE /\ pc' = "report"
            /\ UNCHANGED <<pdf_files_with_paths, fi>>
    /\ UNCHANGED <<env, args, files, valid_files, vi, walker, stdout, log, writer, mi,
                   outFile, writes>>

(***************************************************************************)
(* get_pdf_files_in_folders: one folder, or one directory of a walk, per   *)
(* step.                                                                   *)
(***************************************************************************)
\* line 39: [os.path.join(root, file) for file in files if file.lower().endswith('.pdf')]
PdfFilesIn(root, names) ==
    LET kept == SelectSeq(names, IsPdfName)
    IN [i \in 1..Len(kept) |-> Join(root, kept[i])]

\* os.walk handing out the directories among the files: the variant C8 must
\* tell from the code
WalkEntries(fs, top) == fs[top].entries

\* os.walk: the entries of top that are directories, as paths, and the others, as names
WalkDirs(fs, top) ==
    LET sub == SelectSeq(fs[top].entries, LAMBDA n : IsDir(fs, Join(top, n)))
    IN [i \in 1..Len(sub) |-> Join(top, sub[i])]
WalkFiles(fs, top) == SelectSeq(fs[top].entries, LAMBDA n : ~IsDir(fs, Join(top, n)))

\* recursive=False, os.listdir(folder_path) returns: lines 37-40
ScanListdir ==
    /\ pc = "scan"
    /\ fi <= Len(args.folders)
    /\ ~args.recursive
    /\ Listable(env.fs, args.folders[fi])
    /\ pdf_files_with_paths' =
           pdf_files_with_paths \o PdfFilesIn(args.folders[fi], env.fs[args.folders[fi]].entries)
    /\ fi' = fi + 1
    /\ UNCHANGED <<env, args, pc, files, valid_files, vi, walker, stdout, log, writer, mi,
                   outFile, writes>>

\* recursive=False, os.listdir(folder_path) raises: lines 41-42
ScanListdirError ==
    /\ pc = "scan"
    /\ fi <= Len(args.folders)
    /\ ~args.recursive
    /\ ~Listable(env.fs, args.folders[fi])
    /\ log' = Append(log, Error("Error processing folder", args.folders[fi]))
    /\ fi' = fi + 1
    /\ UNCHANGED <<env, args, pc, files, valid_files, vi, pdf_files_with_paths, walker,
                   stdout, writer, mi, outFile, writes>>

\* recursive=True, line 37: os.walk(folder_path) makes the generator; it raises nothing
ScanWalk ==
    /\ pc = "scan"
    /\ fi <= Len(args.folders)
    /\ args.recursive
    /\ walker' = <<args.folders[fi]>>
    /\ pc' = "walk"
    /\ UNCHANGED <<env, args, files, valid_files, vi, pdf_files_with_paths, fi, stdout,
                   log, writer, mi, outFile, writes>>

\* os.walk yields (root, dirs, files) for the next directory: lines 38-40
WalkYield ==
    /\ pc = "walk"
    /\ walker # <<>>
    /\ Listable(env.fs, Head(walker))
    /\ pdf_files_with_paths' =
           pdf_files_with_paths \o PdfFilesIn(Head(walker), WalkFiles(env.fs, Head(walker)))
    /\ walker' = WalkDirs(env.fs, Head(walker)) \o Tail(walker)
    /\ UNCHANGED <<env, args, pc, files, valid_files, vi, fi, stdout, log, writer, mi,
                   outFile, writes>>

\* os.walk cannot list the next directory: with onerror=None the error is
\* dropped inside os.walk and the directory yields nothing
WalkSkip ==
    /\ pc = "walk"
    /\ walker # <<>>
    /\ ~Listable(env.fs, Head(walker))
    /\ walker' = Tail(walker)
    /\ UNCHANGED <<env, args, pc, files, valid_files, vi, pdf_files_with_paths, fi, stdout,
                   log, writer, mi, outFile, writes>>

\* the generator is exhausted: next folder
WalkEnd ==
    /\ pc = "walk"
    /\ walker = <<>>
    /\ pc' = "scan"
    /\ fi' = fi + 1
    /\ UNCHANGED <<env, args, files, valid_files, vi, pdf_files_with_paths, walker, stdout,
                   log, writer, mi, outFile, writes>>

\* line 126 as files = pdf_files + files: the variant C4 must tell from the code
ScanReturnInFront ==
    /\ pc = "scan"
    /\ fi > Len(args.folders)
    /\ files' = pdf_files_with_paths \o files
    /\ pc' = "report"
    /\ UNCHANGED <<env, args, valid_files, vi, pdf_files_with_paths, fi, walker, stdout,
                   log, writer, mi, outFile, writes>>

\* return pdf_files_with_paths; main, line 126: files = files + pdf_files
ScanReturn ==
    /\ pc = "scan"
    /\ fi > Len(args.folders)
    /\ files' = files \o pdf_files_with_paths
    /\ pc' = "report"
    /\ UNCHANGED <<env, args, valid_files, vi, pdf_files_with_paths, fi, walker, stdout,
                   log, writer, mi, outFile, writes>>

(***************************************************************************)
(* main, lines 128-138: the dry run, or the list and the merge.            *)
(***************************************************************************)
Header == <<"PDF files to merge:">>

\* lines 128-132 without the return: the variant C5 must tell from the code
DryRunWithoutReturn ==
    /\ pc = "report"
    /\ args.dry_run
    /\ stdout' = stdout \o files
    /\ pc' = "merge_pdfs"
    /\ UNCHANGED <<env, args, files, valid_files, vi, pdf_files_with_paths, fi, walker,
                   log, writer, mi, outFile, writes>>

\* lines 128-132; logging.info is below the root logger's level and emits nothing
DryRun ==
    /\ pc = "report"
    /\ args.dry_run
    /\ stdout' = stdout \o files
    /\ pc' = "done"
    /\ UNCHANGED <<env, args, files, valid_files, vi, pdf_files_with_paths, fi, walker,
                   log, writer, mi, outFile, writes>>

\* lines 134-138, up to the call of merge_pdfs
PrintFiles ==
    /\ pc = "report"
    /\ ~args.dry_run
    /\ stdout' = stdout \o <<Header>> \o files
    /\ pc' = "merge_pdfs"
    /\ UNCHANGED <<env, args, files, valid_files, vi, pdf_files_with_paths, fi, walker,
                   log, writer, mi, outFile, writes>>

(***************************************************************************)
(* merge_pdfs(files, args.output_file)                                     *)
(***************************************************************************)
\* line 85: writer = PdfWriter()
NewWriter ==
    /\ pc = "merge_pdfs"
    /\ writer' = [open |-> TRUE, pages |-> <<>>, closes |-> 0]
    /\ mi' = 1
    /\ pc' = "append"
    /\ UNCHANGED <<env, args, files, valid_files, vi, pdf_files_with_paths, fi, walker,
                   stdout, log, outFile, writes>>

\* an append that puts the document before the pages already there: the
\* variant C2 must tell from the code
AppendPagesInFront(pages, file) == DocPages(file) \o pages

\* PdfWriter.append: the document's pages follow the pages already there
AppendPages(pages, file) == pages \o DocPages(file)

\* line 87, the codec opens the file
AppendOk ==
    /\ pc = "append"
    /\ mi <= Len(files)
    /\ CanAppend(env.fs, files[mi])
    /\ writer' = [writer EXCEPT !.pages = AppendPages(@, files[mi])]
    /\ mi' = mi + 1
    /\ UNCHANGED <<env, args, pc, files, valid_files, vi, pdf_files_with_paths, fi, walker,
                   stdout, log, outFile, writes>>

\* line 87 inside a try/except that logs and goes on to the next file: the
\* variant C10 must tell from the code
AppendSkip ==
    /\ pc = "append"
    /\ mi <= Len(files)
    /\ ~CanAppend(env.fs, files[mi])
    /\ log' = Append(log, Error("Error reading file", files[mi]))
    /\ mi' = mi + 1
    /\ UNCHANGED <<env, args, pc, files, valid_files, vi, pdf_files_with_paths, fi, walker,
                   stdout, writer, outFile, writes>>

\* line 87, the codec raises: nothing catches it, in merge_pdfs or in main
AppendRaise ==
    /\ pc = "append"
    /\ mi <= Len(files)
    /\ ~CanAppend(env.fs, files[mi])
    /\ pc' = "raised"
    /\ UNCHANGED <<env, args, files, valid_files, vi, pdf_files_with_paths, fi, walker,
                   stdout, log, writer, mi, outFile, writes>>

\* line 88, the write succeeds: the file at the output path is replaced by the
\* writer's document, whatever its number of pages (write does not look at it)
WriteOk ==
    /\ pc = "append"
    /\ mi > Len(files)
    /\ outFile' = Written(writer.pages)
    /\ writes' = writes + 1
    /\ pc' = "close"
    /\ UNCHANGED <<env, args, files, valid_files, vi, pdf_files_with_paths, fi, walker,
                   stdout, log, writer, mi>>

\* line 88, the output path cannot be opened for writing: write raises
WriteRaise ==
    /\ pc = "append"
    /\ mi > Len(files)
    /\ writes' = writes + 1
    /\ pc' = "raised"
    /\ UNCHANGED <<env, args, files, valid_files, vi, pdf_files_with_paths, fi, walker,
                   stdout, log, writer, mi, outFile>>

\* line 89: writer.close()
Close ==
    /\ pc = "close"
    /\ writer' = [writer EXCEPT !.open = FALSE, !.closes = @ + 1]
    /\ pc' = "done"
    /\ UNCHANGED <<env, args, files, valid_files, vi, pdf_files_with_paths, fi, walker,
                   stdout, log, mi, outFile, writes>>

Next ==
    \/ MainFiles
    \/ ValidateNotFound
    \/ ValidateNotPdf
    \/ ValidateKeep
    \/ ValidateReturn
    \/ MainFolders
    \/ ScanListdir
    \/ ScanListdirError
    \/ ScanWalk
    \/ WalkYield
    \/ WalkSkip
    \/ WalkEnd
    \/ ScanReturn
    \/ DryRun
    \/ PrintFiles
    \/ NewWriter
    \/ AppendOk
    \/ AppendRaise
    \/ WriteOk
    \/ WriteRaise
    \/ Close

Spec == Init /\ [][Next]_vars

(***************************************************************************)
(* Vocabulary of the properties, stated on paths and on the file system    *)
(* and not through the operators the actions use.                          *)
(***************************************************************************)
Terminal == pc \in {"done", "raised"}

\* s ends in ".pdf", whatever the case of its letters
EndsInPdfAnyCase(s) ==
    /\ Len(s) >= 4
    /\ s[Len(s) - 3] = "."
    /\ s[Len(s) - 2] \in {"p", "P"}
    /\ s[Len(s) - 1] \in {"d", "D"}
    /\ s[Len(s)] \in {"f", "F"}

\* the paths validation is to keep
Wanted(path) == path \in DOMAIN env.fs /\ EndsInPdfAnyCase(path)

Range(seq) == {seq[i] : i \in 1..Len(seq)}
Count(x, seq) == Cardinality({i \in 1..Len(seq) : seq[i] = x})

\* the directories above path: its prefixes that end before a separator
Ancestors(path) == {SubSeq(path, 1, k - 1) : k \in {j \in 1..Len(path) : path[j] = "/"}}
Parent(path) == CHOOSE a \in Ancestors(path) : \A b \in Ancestors(path) : Len(b) <= Len(a)
Under(folder, path) == folder \in Ancestors(path)

\* path lies in folder's tree and every directory from folder down to it can be listed
Reachable(folder, path) ==
    /\ Under(folder, path)
    /\ \A a \in Ancestors(path) : (a = folder \/ Under(folder, a)) => Listable(env.fs, a)

\* what one folder is to contribute: path p is an entry of the folder itself, or
\* an entry that is not a directory, or any entry, somewhere in the folder's tree;
\* each time with a name that ends in ".pdf"
TopLevelMatch(folder, p) ==
    /\ EndsInPdfAnyCase(p)
    /\ Under(folder, p)
    /\ Parent(p) = folder
    /\ Listable(env.fs, folder)
TreeFileMatch(folder, p) ==
    /\ EndsInPdfAnyCase(p)
    /\ env.fs[p].kind = "file"
    /\ Reachable(folder, p)
TreeEntryMatch(folder, p) ==
    /\ EndsInPdfAnyCase(p)
    /\ Reachable(folder, p)
Contributes(folder, p) ==
    IF args.recursive THEN TreeFileMatch(folder, p) ELSE TopLevelMatch(folder, p)
Discovered(folder) == {p \in DOMAIN env.fs : Contributes(folder, p)}

\* the pages of the documents of a list, one document after the other
RECURSIVE ConcatPages(_)
ConcatPages(paths) ==
    IF paths = <<>> THEN <<>> ELSE DocPages(Head(paths)) \o ConcatPages(Tail(paths))

ErrorPaths == LET e == SelectSeq(log, LAMBDA r : r.level = "ERROR")
              IN [i \in 1..Len(e) |-> e[i].path]

(***************************************************************************)
(* C1.  validate_pdf_files(P) is the subsequence of P, in P's order and    *)
(* with its duplicates, of exactly the paths that exist and end in ".pdf"  *)
(* whatever the case: during the loop valid_files is that subsequence of   *)
(* the part of P already visited, and main receives that of the whole P.   *)
(***************************************************************************)
C1_ValidateExactSubsequence ==
    /\ pc = "validate" =>
           valid_files = SelectSeq(SubSeq(args.files, 1, vi - 1), Wanted)
    /\ (pc = "folders" /\ args.files # <<>>) =>
           files = SelectSeq(args.files, Wanted)

\* a missing x.pdf is dropped and y.PDF, in upper case, is kept after it
C1_Witness ==
    /\ pc = "folders"
    /\ args.files = <<p_x, p_y>>
    /\ p_x \notin DOMAIN env.fs
    /\ files = <<p_y>>

(***************************************************************************)
(* C2.  A merge that completes without error has written the pages of the  *)
(* input documents, document after document in the order of the list and  *)
(* each document's pages in its own order; while it runs the writer holds  *)
(* the pages of the documents appended so far.                             *)
(***************************************************************************)
C2_OutputIsConcatenation ==
    /\ pc = "append" => writer.pages = ConcatPages(SubSeq(files, 1, mi - 1))
    /\ (pc = "done" /\ ~args.dry_run) => outFile = Written(ConcatPages(files))

\* the same two-page document twice and a third document after it
C2_Witness ==
    /\ pc = "done"
    /\ ~args.dry_run
    /\ Len(files) >= 3
    /\ files[1] = p_x
    /\ files[2] = p_x
    /\ outFile[2][3] = <<p_x, 1>>
    /\ Len(outFile[2]) > 4

(***************************************************************************)
(* C5.  In a dry run main prints the resolved paths, one line per path in  *)
(* the resolved order, and nothing else; it never enters merge_pdfs, never *)
(* calls write, and the output path stays as it was.                       *)
(***************************************************************************)
C5_DryRunOnlyPrints ==
    args.dry_run =>
        /\ pc \notin {"merge_pdfs", "append", "close", "raised"}
        /\ writer = NoWriter
        /\ writes = 0
        /\ outFile = env.output
        /\ stdout = IF pc = "done" THEN files ELSE <<>>
        /\ pc = "done" =>
               \E k \in 0..Len(files) :
                   /\ SubSeq(files, 1, k) = SelectSeq(args.files, Wanted)
                   /\ \A i \in k + 1..Len(files) :
                          \E j \in 1..Len(args.folders) : Under(args.folders[j], files[i])

\* x.pdf then y.PDF are printed, and the file at the output path is still the old one
C5_Witness ==
    /\ args.dry_run
    /\ pc = "done"
    /\ args.folders = <<>>
    /\ stdout = <<p_x, p_y>>
    /\ outFile = OldFile

(***************************************************************************)
(* C10.  merge_pdfs calls write at most once, and only when every file of  *)
(* the list has been appended; when an append raises, write is never       *)
(* called and the output path stays as it was before the run.              *)
(***************************************************************************)
C10_WriteOnlyAfterAllAppended ==
    /\ writes <= 1
    /\ writes = 1 =>
           /\ mi = Len(files) + 1
           /\ \A i \in 1..Len(files) : CanAppend(env.fs, files[i])
    /\ (pc = "raised" /\ mi <= Len(files)) =>
           /\ writes = 0
           /\ outFile = env.output

\* the second file cannot be opened: the old output file is untouched
C10_Witness ==
    /\ pc = "raised"
    /\ mi = 2
    /\ Len(files) >= 2
    /\ writes = 0
    /\ outFile = OldFile

(***************************************************************************)
(* C3.  When exactly one file of the list cannot be opened by the codec,   *)
(* the merge ends normally: one error is logged for that file, write is    *)
(* called, and the output holds the pages of the other files in order.     *)
(* The code has no handler around writer.append, so this fails.            *)
(***************************************************************************)
Unopenable == {i \in 1..Len(files) : ~CanAppend(env.fs, files[i])}

C3_SkipUnopenableFile ==
    (Terminal /\ ~args.dry_run /\ Cardinality(Unopenable) = 1) =>
        LET bad == CHOOSE i \in Unopenable : TRUE
            rest == SubSeq(files, 1, bad - 1) \o SubSeq(files, bad + 1, Len(files))
        IN /\ writes = 1
           /\ ErrorPaths = <<files[bad]>>
           /\ pc = "done" => outFile = Written(ConcatPages(rest))

(***************************************************************************)
(* C4.  The list main resolves is the explicit files that pass validation, *)
(* in the order given, followed by the discovered files folder by folder   *)
(* in the order the folders were given: after the explicit files comes     *)
(* one segment per folder, holding exactly that folder's discoveries.      *)
(***************************************************************************)
RECURSIVE FolderSegments(_, _)
FolderSegments(rest, j) ==
    IF j > Len(args.folders) THEN rest = <<>>
    ELSE LET n == Cardinality(Discovered(args.folders[j]))
         IN /\ n <= Len(rest)
            /\ Range(SubSeq(rest, 1, n)) = Discovered(args.folders[j])
            /\ FolderSegments(SubSeq(rest, n + 1, Len(rest)), j + 1)

C4_ExplicitThenFoldersInOrder ==
    pc = "report" =>
        LET explicit == SelectSeq(args.files, Wanted)
        IN /\ Len(explicit) <= Len(files)
           /\ SubSeq(files, 1, Len(explicit)) = explicit
           /\ FolderSegments(SubSeq(files, Len(explicit) + 1, Len(files)), 1)

\* y.PDF, then the file of A/s, then the files of A with that of A/s among them
C4_Witness ==
    /\ pc = "report"
    /\ args.files = <<p_z, p_y>>
    /\ args.folders = <<p_S, p_A>>
    /\ args.recursive
    /\ Len(files) >= 5
    /\ files[1] = p_y
    /\ files[2] = Join(p_S, n_t)
    /\ Parent(files[3]) = p_A
    /\ files[Len(files)] = Join(p_S, n_t)

(***************************************************************************)
(* C6.  Every folder that cannot be listed gets one logged error, in both  *)
(* modes, contributes nothing, and the folders after it are still scanned. *)
(* With recursive=True os.walk drops the error and nothing is logged.      *)
(***************************************************************************)
Unlistable(folder) == ~Listable(env.fs, folder)

C6_UnlistableFolderLogged ==
    pc = "scan" =>
        /\ ErrorPaths = SelectSeq(SubSeq(args.folders, 1, fi - 1), Unlistable)
        /\ \A i \in 1..fi - 1 :
               ~Unlistable(args.folders[i]) =>
                   Discovered(args.folders[i]) \subseteq Range(pdf_files_with_paths)
        /\ \A p \in Range(pdf_files_with_paths) :
               \E i \in 1..fi - 1 :
                   ~Unlistable(args.folders[i]) /\ Under(args.folders[i], p)

(***************************************************************************)
(* C7.  A live run whose resolved list is empty ends with an error of the  *)
(* write and leaves the output path as it was; it never stores a document  *)
(* without pages.  The code calls write on the empty writer, which stores  *)
(* a document with no pages.                                               *)
(***************************************************************************)
C7_EmptyListFails ==
    (~args.dry_run /\ files = <<>> /\ pc \in {"close", "done", "raised"}) =>
        /\ pc = "raised"
        /\ outFile = env.output

(***************************************************************************)
(* C8.  The paths get_pdf_files_in_folders has collected after some of the *)
(* folders are, with their multiplicity, those the folders contribute:     *)
(* with recursive=False the entries of the folder itself whose name ends   *)
(* in ".pdf", of any kind, and never a path from inside a subdirectory;    *)
(* with recursive=True the entries that are not directories and whose name *)
(* ends in ".pdf", at every depth that can be reached by listing.          *)
(***************************************************************************)
Contributed(p, done) == Cardinality({i \in 1..done : Contributes(args.folders[i], p)})

C8_DiscoveredPerFolder ==
    pc = "scan" =>
        /\ \A p \in DOMAIN env.fs \cup Range(pdf_files_with_paths) :
               Count(p, pdf_files_with_paths) = Contributed(p, fi - 1)
        /\ ~args.recursive =>
               \A p \in Range(pdf_files_with_paths) :
                   \E i \in 1..fi - 1 : Parent(p) = args.folders[i]

\* C8 as first stated: in both modes every entry whose name ends in ".pdf",
\* a directory too
EntryContributes(folder, p) ==
    IF args.recursive THEN TreeEntryMatch(folder, p) ELSE TopLevelMatch(folder, p)

C8_Original ==
    pc = "scan" =>
        \A p \in DOMAIN env.fs \cup Range(pdf_files_with_paths) :
            Count(p, pdf_files_with_paths) =
                Cardinality({i \in 1..fi - 1 : EntryContributes(args.folders[i], p)})

\* a walk of A that returned u.pdf from inside the directory e.pdf, and not e.pdf
C8_Witness ==
    /\ pc = "scan"
    /\ fi > Len(args.folders)
    /\ args.recursive
    /\ args.folders = <<p_A>>
    /\ Join(Join(p_A, n_e), n_u) \in Range(pdf_files_with_paths)
    /\ Join(p_A, n_a) \in Range(pdf_files_with_paths)
    /\ Join(p_A, n_e) \notin Range(pdf_files_with_paths)

(***************************************************************************)
(* C9.  However merge_pdfs ends, its writer has been closed, once.  The    *)
(* code closes the writer on the normal path only.                         *)
(***************************************************************************)
C9_WriterClosedOnEveryExit ==
    (Terminal /\ ~args.dry_run) =>
        /\ ~writer.open
        /\ writer.closes = 1

====
